---- MODULE Spec2Model ----
(***************************************************************************)
(* The incremental token stream parser of src/token/stream-parser.ts:      *)
(* class Parser (a Transform stream in object mode).  One action per call  *)
(* of _transform; the token decoders it dispatches to live outside the     *)
(* file and are modelled here as sequential compositions of the Parser's   *)
(* own readers.                                                            *)
(***************************************************************************)
EXTENDS Integers, Sequences, FiniteSets, TLC

\* ------------------------------------------------------------------ bounds
\* Most token frames concatenated into one input stream.
MaxTokens == 2
\* Most bytes one chunk carries.
MaxChunk == 5
\* Most End-Of-Message markers delivered in one behaviour.
MaxEOM == 1

\* --------------------------------------------------------------- registry
\* tokenParsers[TYPE.X] = require(...): the tags with a registered decoder.
TYPE_COLMETADATA == 129
TYPE_DONE == 253
TYPE_DONEINPROC == 255
TYPE_DONEPROC == 254
TYPE_ENVCHANGE == 227
TYPE_ERROR == 170
TYPE_FEDAUTHINFO == 238
TYPE_FEATUREEXTACK == 174
TYPE_INFO == 171
TYPE_LOGINACK == 173
TYPE_ORDER == 169
TYPE_RETURNSTATUS == 121
TYPE_RETURNVALUE == 172
TYPE_ROW == 209
TYPE_NBCROW == 210
TYPE_SSPI == 237
\* A byte that is no key of tokenParsers.
UnknownType == 66

tokenParsers ==
  {TYPE_COLMETADATA, TYPE_DONE, TYPE_DONEINPROC, TYPE_DONEPROC, TYPE_ENVCHANGE,
   TYPE_ERROR, TYPE_FEDAUTHINFO, TYPE_FEATUREEXTACK, TYPE_INFO, TYPE_LOGINACK,
   TYPE_ORDER, TYPE_RETURNSTATUS, TYPE_RETURNVALUE, TYPE_ROW, TYPE_NBCROW,
   TYPE_SSPI}

\* ------------------------------------------------------------------ state
VARIABLES
  buffer,        \* this.buffer: the byte window
  position,      \* this.position: the read cursor into buffer
  suspended,     \* this.suspended
  next,          \* this.next: <<>> when undefined, else <<continuation>>
  colMetadata,   \* this.colMetadata
  pushed,        \* the tokens handed to the consumer, in order
  errors,        \* the tag of every 'error' event emitted, in order
  threw,         \* emit('error') threw out of _transform; done() never ran
  consumed,      \* history: every byte read so far, in the order read
  emitLog,       \* history: one entry per pushed token
  trace,         \* history: what the last _transform call did, in order
  dispatched,    \* history: how many tags were handed to a decoder
  results,       \* what the readers called directly yielded, in order
  call,          \* environment: the reader called directly, or "none"
  errorListener, \* environment: an 'error' listener is attached
  stream,        \* environment: the bytes the transport will deliver
  sent,          \* environment: how many bytes of stream were delivered
  eoms,          \* environment: how many End-Of-Message markers were delivered
  input          \* environment: the input of the last _transform call

vars == <<buffer, position, suspended, next, colMetadata, pushed, errors, threw,
          consumed, emitLog, trace, dispatched, results, call, errorListener,
          stream, sent, eoms, input>>

\* ---------------------------------------------------------------- helpers
Slice(s, from, to) == SubSeq(s, from + 1, to)

Event(ev, arg, p) ==
  [ev |-> ev, arg |-> arg, pos |-> p.position, was |-> p.suspended,
   off |-> Len(p.consumed)]

Log(p, ev, arg) == [p EXCEPT !.trace = Append(@, Event(ev, arg, p))]

\* ---------------------------------------------------------------- numbers
\* A JavaScript number holding an integer: a sign and the magnitude's bits,
\* least significant first, without leading zeros.  (The values exceed the
\* range of the checker's integers.)
RECURSIVE Trim(_)
Trim(bits) ==
  IF bits = <<>> \/ bits[Len(bits)] = 1 THEN bits
  ELSE Trim(SubSeq(bits, 1, Len(bits) - 1))

BitAt(bits, i) == IF i <= Len(bits) THEN bits[i] ELSE 0

Max(a, b) == IF a >= b THEN a ELSE b

\* The bits of an unsigned integer below 2^24.
RECURSIVE BitsOfNat(_)
BitsOfNat(n) == IF n = 0 THEN <<>> ELSE <<n % 2>> \o BitsOfNat(n \div 2)

\* The bits of the unsigned little-endian integer held by bytes.
RECURSIVE BitsOfBytesLE(_)
BitsOfBytesLE(bytes) ==
  IF bytes = <<>> THEN <<>>
  ELSE [i \in 1..8 |-> (Head(bytes) \div (2 ^ (i - 1))) % 2]
         \o BitsOfBytesLE(Tail(bytes))

RECURSIVE Reverse(_)
Reverse(seq) == IF seq = <<>> THEN <<>> ELSE Append(Reverse(Tail(seq)), Head(seq))

\* a + b on magnitudes.
RECURSIVE AddCarry(_, _, _, _)
AddCarry(a, b, i, carry) ==
  IF i > Max(Len(a), Len(b))
  THEN (IF carry = 1 THEN <<1>> ELSE <<>>)
  ELSE LET sum == BitAt(a, i) + BitAt(b, i) + carry
       IN  <<sum % 2>> \o AddCarry(a, b, i + 1, sum \div 2)

AddBits(a, b) == AddCarry(a, b, 1, 0)

\* a - b on magnitudes, for a >= b.
RECURSIVE SubBorrow(_, _, _, _)
SubBorrow(a, b, i, borrow) ==
  IF i > Len(a) THEN <<>>
  ELSE LET diff == BitAt(a, i) - BitAt(b, i) - borrow
       IN  <<diff % 2>> \o SubBorrow(a, b, i + 1, IF diff < 0 THEN 1 ELSE 0)

SubBits(a, b) == Trim(SubBorrow(a, b, 1, 0))

\* a < b on magnitudes.
RECURSIVE LessFrom(_, _, _)
LessFrom(a, b, i) ==
  IF i = 0 THEN FALSE
  ELSE IF a[i] # b[i] THEN a[i] < b[i]
  ELSE LessFrom(a, b, i - 1)

LessBits(a, b) ==
  IF Len(a) # Len(b) THEN Len(a) < Len(b) ELSE LessFrom(a, b, Len(a))

\* a * 2^k on magnitudes.
ShiftLeft(a, k) == IF a = <<>> THEN <<>> ELSE [i \in 1..k |-> 0] \o a

\* The bits of a double's significand.
Significand == 53

\* The magnitude rounded to the nearest double, ties to even.
RoundToDouble(a) ==
  IF Len(a) <= Significand THEN a
  ELSE LET d == Len(a) - Significand
           kept == SubSeq(a, d + 1, Len(a))
           rest == Trim(SubSeq(a, 1, d))
           half == Len(rest) = d
           above == half /\ Trim(SubSeq(a, 1, d - 1)) # <<>>
           up == above \/ (half /\ kept[1] = 1)
       IN  ShiftLeft(IF up THEN AddBits(kept, <<1>>) ELSE kept, d)

Number(neg, mag) == [neg |-> neg /\ mag # <<>>, mag |-> mag]

\* x + y on numbers, rounded as the addition of two doubles is.
Plus(x, y) ==
  IF x.neg = y.neg
  THEN Number(x.neg, RoundToDouble(AddBits(x.mag, y.mag)))
  ELSE IF LessBits(x.mag, y.mag)
       THEN Number(y.neg, RoundToDouble(SubBits(y.mag, x.mag)))
       ELSE Number(x.neg, RoundToDouble(SubBits(x.mag, y.mag)))

\* Math.pow(2, k) * x: exact for the operands the readers give it.
TimesPow2(x, k) == Number(x.neg, ShiftLeft(x.mag, k))

\* -x.
Negate(x) == Number(~x.neg, x.mag)

\* ---------------------------------------------------------------- readers
\* Buffer.readUInt8 / readUInt16LE / readInt32LE applied to the bytes read.
ReadUInt8(data) == data[1]

ReadUInt16LE(data) == data[1] + 256 * data[2]

ReadInt32LE(data) ==
  data[1] + 256 * data[2] + 65536 * data[3]
    + 16777216 * (IF data[4] >= 128 THEN data[4] - 256 ELSE data[4])

\* The body every reader's callback starts with: take `length` bytes at the
\* cursor and advance the cursor by `length`.
ReadBuffer(p, length) ==
  LET data == Slice(p.buffer, p.position, p.position + length)
      q == [p EXCEPT !.position = @ + length,
                     !.consumed = @ \o data]
  IN  [parser |-> Log(q, "read", length), data |-> data]

\* Or of two magnitudes, bit by bit.
OrBits(a, b) ==
  Trim([i \in 1..Max(Len(a), Len(b)) |->
          IF BitAt(a, i) = 1 \/ BitAt(b, i) = 1 THEN 1 ELSE 0])

\* Buffer.readUInt32LE / readUInt32BE / readInt32LE / readInt32BE at offset
\* `at` of the bytes read, as numbers.
ReadUInt32LEAt(data, at) ==
  Number(FALSE, Trim(BitsOfBytesLE(Slice(data, at, at + 4))))

ReadUInt32BEAt(data, at) ==
  Number(FALSE, Trim(BitsOfBytesLE(Reverse(Slice(data, at, at + 4)))))

Signed32(x) ==
  IF Len(x.mag) = 32
  THEN Number(TRUE, SubBits(ShiftLeft(<<1>>, 32), x.mag))
  ELSE x

ReadInt32LEAt(data, at) == Signed32(ReadUInt32LEAt(data, at))

ReadInt32BEAt(data, at) == Signed32(ReadUInt32BEAt(data, at))

\* Buffer.readInt8 / readInt16LE / readInt16BE / readUInt16BE of the bytes
\* read, as numbers.
Signed(x, width) ==
  IF Len(x.mag) = width
  THEN Number(TRUE, SubBits(ShiftLeft(<<1>>, width), x.mag))
  ELSE x

ReadInt8(data) == Signed(Number(FALSE, BitsOfNat(data[1])), 8)

ReadInt16LE(data) == Signed(Number(FALSE, BitsOfNat(ReadUInt16LE(data))), 16)

ReadUInt16BE(data) == Number(FALSE, BitsOfNat(256 * data[1] + data[2]))

ReadInt16BE(data) == Signed(ReadUInt16BE(data), 16)

\* readUInt64BE, line 259.
ReadUInt64BE(data) ==
  Plus(TimesPow2(ReadUInt32BEAt(data, 0), 32), ReadUInt32BEAt(data, 4))

\* A JavaScript number read from an IEEE 754 encoding: NaN, an infinity, or
\* (-1)^neg * mag * 2^exp with mag odd or zero.
RECURSIVE Reduce(_, _, _)
Reduce(neg, mag, exp) ==
  IF mag = <<>> THEN [class |-> "finite", neg |-> neg, mag |-> <<>>, exp |-> 0]
  ELSE IF mag[1] = 0 THEN Reduce(neg, Tail(mag), exp + 1)
  ELSE [class |-> "finite", neg |-> neg, mag |-> mag, exp |-> exp]

\* The value of the bits in places from..to, the lowest first.
RECURSIVE Field(_, _, _)
Field(bits, from, to) ==
  IF from > to THEN 0 ELSE bits[from] + 2 * Field(bits, from + 1, to)

\* The number whose encoding is `bits` (least significant first), with
\* `fraction` bits of fraction and the exponent in the bits above them.
Decode754(bits, fraction) ==
  LET neg == bits[Len(bits)] = 1
      biased == Field(bits, fraction + 1, Len(bits) - 1)
      frac == SubSeq(bits, 1, fraction)
      top == 2 ^ (Len(bits) - 1 - fraction) - 1
      bias == (top - 1) \div 2
  IN  IF biased = top
      THEN (IF Trim(frac) = <<>>
            THEN [class |-> "infinity", neg |-> neg, mag |-> <<>>, exp |-> 0]
            ELSE [class |-> "NaN", neg |-> FALSE, mag |-> <<>>, exp |-> 0])
      ELSE IF biased = 0
      THEN Reduce(neg, Trim(frac), 1 - bias - fraction)
      ELSE Reduce(neg, frac \o <<1>>, biased - bias - fraction)

\* Buffer.readFloatLE / readFloatBE / readDoubleLE / readDoubleBE.
ReadFloatLE(data) == Decode754(BitsOfBytesLE(data), 23)

ReadFloatBE(data) == Decode754(BitsOfBytesLE(Reverse(data)), 23)

ReadDoubleLE(data) == Decode754(BitsOfBytesLE(data), 52)

ReadDoubleBE(data) == Decode754(BitsOfBytesLE(Reverse(data)), 52)

\* readInt64LE with the high word read unsigned.
ReadInt64LEUnsignedHigh(data) ==
  Plus(TimesPow2(ReadUInt32LEAt(data, 4), 32),
       IF data[5] >= 128
       THEN ReadUInt32LEAt(data, 0)
       ELSE Negate(ReadUInt32LEAt(data, 0)))

\* readInt64LE, line 235.
ReadInt64LE(data) ==
  Plus(TimesPow2(ReadInt32LEAt(data, 4), 32),
       IF data[5] >= 128
       THEN ReadUInt32LEAt(data, 0)
       ELSE Negate(ReadUInt32LEAt(data, 0)))

\* readInt64BE, line 243.
ReadInt64BE(data) ==
  Plus(TimesPow2(ReadInt32BEAt(data, 0), 32),
       IF data[1] >= 128
       THEN ReadUInt32BEAt(data, 4)
       ELSE Negate(ReadUInt32BEAt(data, 4)))

\* readUInt64LE, line 251.
ReadUInt64LE(data) ==
  Plus(TimesPow2(ReadUInt32LEAt(data, 4), 32), ReadUInt32LEAt(data, 0))

\* readUInt24LE, lines 299-304: low | (high << 16).
ReadUInt24LE(data) ==
  Number(FALSE, OrBits(BitsOfNat(ReadUInt16LE(data)),
                       ShiftLeft(BitsOfNat(data[3]), 16)))

\* readUInt40LE with the high byte scaled by 2^24.
ReadUInt40LEShort(data) ==
  Plus(TimesPow2(Number(FALSE, BitsOfNat(data[5])), 24),
       ReadUInt32LEAt(data, 0))

\* readUInt40LE, lines 310-315.
ReadUInt40LE(data) ==
  Plus(TimesPow2(Number(FALSE, BitsOfNat(data[5])), 32),
       ReadUInt32LEAt(data, 0))

\* readUNumeric64LE, lines 321-326.
ReadUNumeric64LE(data) ==
  Plus(TimesPow2(ReadUInt32LEAt(data, 4), 32), ReadUInt32LEAt(data, 0))

\* readUNumeric96LE, lines 332-338.
ReadUNumeric96LE(data) ==
  Plus(Plus(ReadUInt32LEAt(data, 0), TimesPow2(ReadUInt32LEAt(data, 4), 32)),
       TimesPow2(ReadUInt32LEAt(data, 8), 64))

\* readUNumeric128LE, lines 344-351.
ReadUNumeric128LE(data) ==
  Plus(Plus(Plus(ReadUInt32LEAt(data, 0),
                 TimesPow2(ReadUInt32LEAt(data, 4), 32)),
            TimesPow2(ReadUInt32LEAt(data, 8), 64)),
       TimesPow2(ReadUInt32LEAt(data, 12), 96))

\* data.toString('ucs2'): one code unit per two bytes, low byte first.
Ucs2(data) ==
  [i \in 1..(Len(data) \div 2) |-> data[2 * i - 1] + 256 * data[2 * i]]

FixedReaders ==
  {"readInt8", "readUInt8", "readInt16LE", "readInt16BE", "readUInt16LE",
   "readUInt16BE", "readInt32LE", "readInt32BE", "readUInt32LE",
   "readUInt32BE", "readInt64LE", "readInt64BE", "readUInt64LE",
   "readUInt64BE", "readFloatLE", "readFloatBE", "readDoubleLE",
   "readDoubleBE", "readUInt24LE", "readUInt40LE", "readUNumeric64LE",
   "readUNumeric96LE", "readUNumeric128LE"}

VarReaders == {"readBVarChar", "readUsVarChar", "readBVarByte", "readUsVarByte"}

\* The bytes a fixed-width reader awaits.
Width(reader) ==
  CASE reader \in {"readInt64LE", "readInt64BE", "readUInt64LE",
                   "readUInt64BE", "readDoubleLE", "readDoubleBE",
                   "readUNumeric64LE"} -> 8
    [] reader \in {"readInt8", "readUInt8"} -> 1
    [] reader \in {"readInt16LE", "readInt16BE", "readUInt16LE",
                   "readUInt16BE"} -> 2
    [] reader \in {"readInt32LE", "readInt32BE", "readUInt32LE",
                   "readUInt32BE", "readFloatLE", "readFloatBE"} -> 4
    [] reader = "readUInt24LE" -> 3
    [] reader = "readUInt40LE" -> 5
    [] reader = "readUNumeric96LE" -> 12
    [] reader = "readUNumeric128LE" -> 16

\* The bytes of a variable-length reader's length prefix.
PrefixWidth(reader) ==
  IF reader \in {"readBVarChar", "readBVarByte"} THEN 1 ELSE 2

\* The value a fixed-width reader hands its callback.
Interpret(reader, data) ==
  CASE reader = "readInt8" -> ReadInt8(data)
    [] reader = "readUInt8" -> Number(FALSE, BitsOfNat(ReadUInt8(data)))
    [] reader = "readInt16LE" -> ReadInt16LE(data)
    [] reader = "readInt16BE" -> ReadInt16BE(data)
    [] reader = "readUInt16LE" -> Number(FALSE, BitsOfNat(ReadUInt16LE(data)))
    [] reader = "readUInt16BE" -> ReadUInt16BE(data)
    [] reader = "readInt32LE" -> ReadInt32LEAt(data, 0)
    [] reader = "readInt32BE" -> ReadInt32BEAt(data, 0)
    [] reader = "readUInt32LE" -> ReadUInt32LEAt(data, 0)
    [] reader = "readUInt32BE" -> ReadUInt32BEAt(data, 0)
    [] reader = "readUInt64BE" -> ReadUInt64BE(data)
    [] reader = "readFloatLE" -> ReadFloatLE(data)
    [] reader = "readFloatBE" -> ReadFloatBE(data)
    [] reader = "readDoubleLE" -> ReadDoubleLE(data)
    [] reader = "readDoubleBE" -> ReadDoubleBE(data)
    [] reader = "readInt64LE" -> ReadInt64LE(data)
    [] reader = "readInt64BE" -> ReadInt64BE(data)
    [] reader = "readUInt64LE" -> ReadUInt64LE(data)
    [] reader = "readUInt24LE" -> ReadUInt24LE(data)
    [] reader = "readUInt40LE" -> ReadUInt40LE(data)
    [] reader = "readUNumeric64LE" -> ReadUNumeric64LE(data)
    [] reader = "readUNumeric96LE" -> ReadUNumeric96LE(data)
    [] reader = "readUNumeric128LE" -> ReadUNumeric128LE(data)

\* A reader called directly, in progress: stage 0 before its first read,
\* stage 1 between a length prefix and its payload, stage 2 when its callback
\* is due.
FinishedRead(f) == f.stage = 2

NeedRead(f) ==
  IF f.reader \in FixedReaders THEN Width(f.reader)
  ELSE IF f.stage = 0 THEN PrefixWidth(f.reader)
  ELSE IF f.reader \in {"readBVarChar", "readUsVarChar"} THEN f.count * 2
  ELSE f.count

AcceptRead(f, data) ==
  IF f.reader \in FixedReaders
  THEN [f EXCEPT !.stage = 2, !.num = Interpret(f.reader, data)]
  ELSE IF f.stage = 0
  THEN [f EXCEPT !.stage = 1,
                 !.count = IF PrefixWidth(f.reader) = 1
                           THEN ReadUInt8(data)
                           ELSE ReadUInt16LE(data)]
  ELSE [f EXCEPT !.stage = 2,
                 !.data = IF f.reader \in {"readBVarChar", "readUsVarChar"}
                          THEN Ucs2(data)
                          ELSE data]

\* ------------------------------------------------------- token decoders
\* A decoder in progress: the tag, the colMetadata it was handed at dispatch,
\* the fields read so far and the stream offset of its tag byte.
NewFrame(type, ctx, start) ==
  [type |-> type, ctx |-> ctx, stage |-> 0, count |-> 0, value |-> 0,
   data |-> <<>>, columns |-> <<>>, start |-> start, reader |-> "",
   num |-> Number(FALSE, <<>>)]

\* The decoders of the three completion tokens: status, current command and
\* row count.
DoneTypes == {TYPE_DONE, TYPE_DONEINPROC, TYPE_DONEPROC}

\* The decoders that read a 16-bit length and then a body of that length;
\* the fields inside the body are taken as one read.
BodyTypes ==
  {TYPE_SSPI, TYPE_ENVCHANGE, TYPE_ERROR, TYPE_INFO, TYPE_LOGINACK, TYPE_ORDER}

\* Buffer.readUInt32LE as a length to await; a length of 2^30 or more, which
\* no window here holds, stands as 2^30.
ReadUInt32LE(data) ==
  IF data[4] >= 64 THEN 1073741824
  ELSE data[1] + 256 * data[2] + 65536 * data[3] + 16777216 * data[4]

\* Column i is marked null in the bitmap an NBCROW token starts with.
IsNull(bitmap, i) == (bitmap[(i - 1) \div 8 + 1] \div (2 ^ ((i - 1) % 8))) % 2 = 1

\* The NBCROW decoder passing the columns marked null: they take no bytes.
RECURSIVE SkipNulls(_)
SkipNulls(f) ==
  IF Len(f.columns) < Len(f.ctx) /\ IsNull(f.data, Len(f.columns) + 1)
  THEN SkipNulls([f EXCEPT !.columns = Append(@, <<>>)])
  ELSE f

\* The decoder has read every field and calls its completion callback.
Finished(f) ==
  IF f.reader # "" THEN FinishedRead(f) ELSE
  CASE f.type = TYPE_RETURNSTATUS  -> f.stage = 1
    [] f.type \in BodyTypes        -> f.stage = 2
    [] f.type = TYPE_FEDAUTHINFO   -> f.stage = 2
    [] f.type \in DoneTypes        -> f.stage = 3
    [] f.type = TYPE_FEATUREEXTACK -> f.stage = 3
    [] f.type = TYPE_RETURNVALUE   -> f.stage = 9
    [] f.type = TYPE_COLMETADATA   -> f.stage = 1 /\ Len(f.columns) = f.count
    [] f.type = TYPE_ROW           -> Len(f.columns) = Len(f.ctx)
    [] f.type = TYPE_NBCROW        -> f.stage = 1 /\ Len(f.columns) = Len(f.ctx)

\* The number of bytes the decoder's next read awaits.
Need(f) ==
  IF f.reader # "" THEN NeedRead(f) ELSE
  CASE f.type = TYPE_RETURNSTATUS  -> 4
    [] f.type \in BodyTypes        -> IF f.stage = 0 THEN 2 ELSE f.count
    [] f.type = TYPE_FEDAUTHINFO   -> IF f.stage = 0 THEN 4 ELSE f.count
    [] f.type \in DoneTypes        -> IF f.stage = 2 THEN 8 ELSE 2
    [] f.type = TYPE_FEATUREEXTACK ->
         IF f.stage = 0 THEN 1 ELSE IF f.stage = 1 THEN 4 ELSE f.count
    [] f.type = TYPE_RETURNVALUE   ->
         (CASE f.stage \in {0, 5}       -> 2
            [] f.stage \in {1, 3, 6, 7} -> 1
            [] f.stage = 2              -> 2 * f.count
            [] f.stage = 4              -> 4
            [] f.stage = 8              -> f.count)
    [] f.type = TYPE_COLMETADATA   -> IF f.stage = 0 THEN 2 ELSE 1
    [] f.type = TYPE_ROW           -> f.ctx[Len(f.columns) + 1]
    [] f.type = TYPE_NBCROW        ->
         IF f.stage = 0 THEN (Len(f.ctx) + 7) \div 8
         ELSE f.ctx[Len(f.columns) + 1]

\* The decoder's state after its pending read yielded `data`.
Accept(f, data) ==
  IF f.reader # "" THEN AcceptRead(f, data) ELSE
  CASE f.type = TYPE_RETURNSTATUS ->
         [f EXCEPT !.stage = 1, !.value = ReadInt32LE(data)]
    [] f.type \in BodyTypes ->
         IF f.stage = 0
         THEN [f EXCEPT !.stage = 1, !.count = ReadUInt16LE(data)]
         ELSE [f EXCEPT !.stage = 2, !.data = data]
    [] f.type = TYPE_FEDAUTHINFO ->
         IF f.stage = 0
         THEN [f EXCEPT !.stage = 1, !.count = ReadUInt32LE(data)]
         ELSE [f EXCEPT !.stage = 2, !.data = data]
    [] f.type \in DoneTypes ->
         IF f.stage = 0
         THEN [f EXCEPT !.stage = 1, !.value = ReadUInt16LE(data)]
         ELSE IF f.stage = 1
         THEN [f EXCEPT !.stage = 2, !.count = ReadUInt16LE(data)]
         ELSE [f EXCEPT !.stage = 3, !.data = data]
    [] f.type = TYPE_FEATUREEXTACK ->
         IF f.stage = 0
         THEN [f EXCEPT !.stage = IF ReadUInt8(data) = 255 THEN 3 ELSE 1,
                        !.value = ReadUInt8(data)]
         ELSE IF f.stage = 1
         THEN [f EXCEPT !.stage = 2, !.count = ReadUInt32LE(data)]
         ELSE [f EXCEPT !.stage = 0, !.columns = Append(@, data)]
    [] f.type = TYPE_RETURNVALUE ->
         (CASE f.stage = 0 ->
                 [f EXCEPT !.stage = 1, !.value = ReadUInt16LE(data)]
            [] f.stage \in {1, 7} ->
                 [f EXCEPT !.stage = @ + 1, !.count = ReadUInt8(data)]
            [] f.stage = 2 ->
                 [f EXCEPT !.stage = 3, !.data = Ucs2(data)]
            [] f.stage \in {3, 4, 5, 6} ->
                 [f EXCEPT !.stage = @ + 1]
            [] f.stage = 8 ->
                 [f EXCEPT !.stage = 9, !.columns = <<data>>])
    [] f.type = TYPE_COLMETADATA ->
         IF f.stage = 0
         THEN [f EXCEPT !.stage = 1, !.count = ReadUInt16LE(data)]
         ELSE [f EXCEPT !.columns = Append(@, ReadUInt8(data))]
    [] f.type = TYPE_ROW ->
         [f EXCEPT !.columns = Append(@, data)]
    [] f.type = TYPE_NBCROW ->
         IF f.stage = 0
         THEN SkipNulls([f EXCEPT !.stage = 1, !.data = data])
         ELSE SkipNulls([f EXCEPT !.columns = Append(@, data)])

TokenName(type) ==
  CASE type = TYPE_RETURNSTATUS  -> "RETURNSTATUS"
    [] type = TYPE_SSPI          -> "SSPICHALLENGE"
    [] type = TYPE_COLMETADATA   -> "COLMETADATA"
    [] type = TYPE_ROW           -> "ROW"
    [] type = TYPE_NBCROW        -> "NBCROW"
    [] type = TYPE_DONE          -> "DONE"
    [] type = TYPE_DONEINPROC    -> "DONEINPROC"
    [] type = TYPE_DONEPROC      -> "DONEPROC"
    [] type = TYPE_ENVCHANGE     -> "ENVCHANGE"
    [] type = TYPE_ERROR         -> "ERROR"
    [] type = TYPE_INFO          -> "INFO"
    [] type = TYPE_FEATUREEXTACK -> "FEATUREEXTACK"
    [] type = TYPE_FEDAUTHINFO   -> "FEDAUTHINFO"
    [] type = TYPE_LOGINACK      -> "LOGINACK"
    [] type = TYPE_ORDER         -> "ORDER"
    [] type = TYPE_RETURNVALUE   -> "RETURNVALUE"

\* The argument of a completion callback called without a token.
Undefined == [name |-> "undefined", value |-> 0, data |-> <<>>, columns |-> <<>>]

\* The kinds of environment change the ENVCHANGE decoder has a token for,
\* named by the first byte of the body.
EnvChangeTypes == {1, 2, 3, 4, 8, 9, 10, 13, 18, 20}

\* The token the decoder hands its completion callback: the ENVCHANGE decoder
\* completes without one for a change it does not know.
TokenOf(f) ==
  IF f.type = TYPE_ENVCHANGE /\ (f.data = <<>> \/ f.data[1] \notin EnvChangeTypes)
  THEN Undefined
  ELSE [name |-> TokenName(f.type), value |-> f.value, data |-> f.data,
        columns |-> f.columns]

EOMToken == [name |-> "EOM", value |-> 0, data |-> <<>>, columns |-> <<>>]

\* ----------------------------------------------------------------- Parser
\* The consumer's queue filled at the wrong end.
PushFront(p, token, meta) ==
  [p EXCEPT !.pushed = <<token>> \o @, !.emitLog = <<meta>> \o @]

\* this.push(token) / done(null, token): the token reaches the consumer.
Push(p, token, meta) ==
  [p EXCEPT !.pushed = Append(@, token), !.emitLog = Append(@, meta)]

\* What the history keeps of a push: the offsets of the token's first and
\* last byte, the colMetadata its decoder was handed and this.colMetadata at
\* the time of the push.
Meta(kind, f, p) ==
  [kind |-> kind, start |-> f.start, end |-> Len(p.consumed), ctx |-> f.ctx,
   now |-> p.colMetadata]

\* doneParsing without the COLMETADATA case.
DoneParsingStale(p, f) ==
  LET token == TokenOf(f)
      d == Log(p, "done", f.start)
  IN  IF token = Undefined THEN d
      ELSE Push(Log(d, "push", f.start), token, Meta("bytes", f, d))

\* parseTokens' doneParsing(token): nothing is pushed `if (token)` fails.
DoneParsing(p, f) ==
  LET token == TokenOf(f)
      d == Log(p, "done", f.start)
      q == IF token.name = "COLMETADATA"
           THEN [d EXCEPT !.colMetadata = token.columns]
           ELSE d
  IN  IF token = Undefined THEN d
      ELSE Push(Log(q, "push", f.start), token, Meta("bytes", f, q))

\* The callback of a reader called directly: the caller keeps the value.
Yield(p, f) ==
  [Log(p, "yield", f.start) EXCEPT
     !.results = Append(@, [reader |-> f.reader, num |-> f.num,
                            data |-> f.data, start |-> f.start,
                            end |-> Len(p.consumed)])]

\* The callback a finished read ends with: doneParsing for a decoder, the
\* caller's own for a reader called directly.
Callback(p, f) == IF f.reader # "" THEN Yield(p, f) ELSE DoneParsing(p, f)

\* suspend storing a continuation that starts the decoder over.
SuspendRestart(p, cont) ==
  LET g == [cont.frame EXCEPT !.stage = 0, !.count = 0]
  IN  [Log(p, "suspend", cont.need) EXCEPT
         !.suspended = TRUE, !.next = <<[need |-> Need(g), frame |-> g]>>]

\* suspend storing the continuation without raising the flag.
SuspendNoFlag(p, cont) ==
  [Log(p, "suspend", cont.need) EXCEPT !.next = <<cont>>]

\* suspend(next).
Suspend(p, cont) ==
  [Log(p, "suspend", cont.need) EXCEPT !.suspended = TRUE, !.next = <<cont>>]

RECURSIVE AwaitData(_, _, _)

\* awaitData with the bound check off by one: exactly `length` unread bytes
\* are taken for too few.
AwaitDataStrict(p, length, f) ==
  IF p.position + length < Len(p.buffer)
  THEN LET r == ReadBuffer(p, length)
           g == Accept(f, r.data)
       IN  IF Finished(g)
           THEN Callback(r.parser, g)
           ELSE AwaitData(r.parser, Need(g), g)
  ELSE Suspend(p, [need |-> length, frame |-> f])

\* awaitData completing the token with the bytes at hand when they fall
\* short, besides suspending.
AwaitDataPartial(p, length, f) ==
  IF p.position + length <= Len(p.buffer)
  THEN LET r == ReadBuffer(p, length)
           g == Accept(f, r.data)
       IN  IF Finished(g)
           THEN Callback(r.parser, g)
           ELSE AwaitData(r.parser, Need(g), g)
  ELSE DoneParsing(Suspend(p, [need |-> length, frame |-> f]), f)

\* awaitData(length, callback), callback being the rest of decoder f.
AwaitData(p, length, f) ==
  IF p.position + length <= Len(p.buffer)
  THEN LET r == ReadBuffer(p, length)
           g == Accept(f, r.data)
       IN  IF Finished(g)
           THEN Callback(r.parser, g)
           ELSE AwaitData(r.parser, Need(g), g)
  ELSE Suspend(p, [need |-> length, frame |-> f])

\* tokenParsers[type](this, this.colMetadata, this.options, doneParsing).
Dispatch(p, type, start) ==
  LET f == NewFrame(type, p.colMetadata, start)
      q == Log([p EXCEPT !.dispatched = @ + 1], "dispatch", type)
  IN  IF Finished(f) THEN DoneParsing(q, f) ELSE AwaitData(q, Need(f), f)

\* this.emit('error', new Error('Unknown type: ' + type)): with a listener
\* attached emit returns; with none it throws the error.
EmitError(p, type) ==
  LET q == Log([p EXCEPT !.errors = Append(@, type)], "error", type)
  IN  IF p.errorListener THEN q ELSE [q EXCEPT !.threw = TRUE]

RECURSIVE ParseTokens(_)

\* parseTokens().
ParseTokens(p) ==
  IF ~p.threw /\ ~p.suspended /\ p.position + 1 <= Len(p.buffer)
  THEN LET type == p.buffer[p.position + 1]
           start == Len(p.consumed)
           q == Log([p EXCEPT !.position = @ + 1,
                              !.consumed = Append(@, type)], "tag", type)
       IN  IF type \in tokenParsers
           THEN ParseTokens(Dispatch(q, type, start))
           ELSE ParseTokens(EmitError(q, type))
  ELSE p

\* The accumulator without the slice: consumed bytes stay in the window.
AppendKeepAll(p, chunk) ==
  [p EXCEPT !.buffer = p.buffer \o chunk, !.position = 0]

\* The accumulator replacing the window whatever the cursor: the unread tail
\* is lost.
AppendDropTail(p, chunk) ==
  [p EXCEPT !.buffer = chunk, !.position = 0]

\* The accumulator without the cursor reset.
AppendKeepPosition(p, chunk) ==
  [p EXCEPT !.buffer = IF p.position = Len(p.buffer)
                       THEN chunk
                       ELSE Slice(p.buffer, p.position, Len(p.buffer)) \o chunk]

\* _transform, lines 91-96: the accumulator.
AppendChunk(p, chunk) ==
  [p EXCEPT !.buffer = IF p.position = Len(p.buffer)
                       THEN chunk
                       ELSE Slice(p.buffer, p.position, Len(p.buffer)) \o chunk,
            !.position = 0]

\* The resumption without clearing the suspended flag first.
ResumeStillSuspended(p) ==
  IF p.suspended
  THEN LET cont == p.next[1]
       IN  AwaitData(Log(p, "resume", cont.need), cont.need, cont.frame)
  ELSE p

\* _transform, lines 98-102: unsuspend and continue from where we left off.
Resume(p) ==
  IF p.suspended
  THEN LET cont == p.next[1]
           q == Log([p EXCEPT !.suspended = FALSE], "resume", cont.need)
       IN  AwaitData(q, cont.need, cont.frame)
  ELSE p

\* _transform with a Buffer.
TransformBytes(p, chunk) ==
  LET a == AppendChunk([p EXCEPT !.trace = <<>>], chunk)
      r == Resume(a)
  IN  IF ~r.suspended THEN ParseTokens(r) ELSE r

\* The End-Of-Message branch falling through to a window reset.
TransformEOMReset(p) ==
  LET q == [p EXCEPT !.trace = <<>>, !.buffer = <<>>, !.position = 0]
  IN  Push(q, EOMToken, [kind |-> "EOM", start |-> 0, end |-> 0,
                         ctx |-> <<>>, now |-> <<>>])

\* _transform with the EndOfMessageMarker.
TransformEOM(p) ==
  LET q == [p EXCEPT !.trace = <<>>]
  IN  Push(q, EOMToken, [kind |-> "EOM", start |-> 0, end |-> 0,
                         ctx |-> <<>>, now |-> <<>>])

\* The constructor.
NewParser(metadata, listener) ==
  [buffer |-> <<>>, position |-> 0, suspended |-> FALSE, next |-> <<>>,
   colMetadata |-> metadata, pushed |-> <<>>, errors |-> <<>>,
   threw |-> FALSE, consumed |-> <<>>, emitLog |-> <<>>, trace |-> <<>>,
   dispatched |-> 0, results |-> <<>>, errorListener |-> listener]

\* ------------------------------------------------------------ environment
\* Encoded tokens, and one byte that is no tag.
Frames ==
  { <<TYPE_RETURNSTATUS, TYPE_ROW, 255, 255, 255>>,
    <<TYPE_SSPI, 0, 0>>,
    <<TYPE_SSPI, 1, 0, TYPE_RETURNSTATUS>>,
    <<TYPE_COLMETADATA, 1, 0, 1>>,
    <<TYPE_ROW>>,
    <<TYPE_ROW, 7>>,
    <<TYPE_ENVCHANGE, 0, 0>>,
    <<UnknownType>> }

RECURSIVE Flatten(_)
Flatten(ss) == IF ss = <<>> THEN <<>> ELSE Head(ss) \o Flatten(Tail(ss))

Streams ==
  UNION { { Flatten(ss) : ss \in [1..n -> Frames] } : n \in 0..MaxTokens }

\* The column metadata the constructor is given.
InitialColMetadata == <<>>

This ==
  [buffer |-> buffer, position |-> position, suspended |-> suspended,
   next |-> next, colMetadata |-> colMetadata, pushed |-> pushed,
   errors |-> errors, threw |-> threw, consumed |-> consumed,
   emitLog |-> emitLog, trace |-> trace, dispatched |-> dispatched,
   results |-> results, errorListener |-> errorListener]

Becomes(p) ==
  /\ buffer' = p.buffer
  /\ position' = p.position
  /\ suspended' = p.suspended
  /\ next' = p.next
  /\ colMetadata' = p.colMetadata
  /\ pushed' = p.pushed
  /\ errors' = p.errors
  /\ threw' = p.threw
  /\ consumed' = p.consumed
  /\ emitLog' = p.emitLog
  /\ trace' = p.trace
  /\ dispatched' = p.dispatched
  /\ results' = p.results

Init ==
  /\ stream \in Streams
  /\ errorListener \in BOOLEAN
  /\ LET p == NewParser(InitialColMetadata, errorListener)
       IN  /\ buffer = p.buffer
           /\ position = p.position
           /\ suspended = p.suspended
           /\ next = p.next
           /\ colMetadata = p.colMetadata
           /\ pushed = p.pushed
           /\ errors = p.errors
           /\ threw = p.threw
           /\ consumed = p.consumed
           /\ emitLog = p.emitLog
           /\ trace = p.trace
           /\ dispatched = p.dispatched
           /\ results = p.results
  /\ sent = 0
  /\ eoms = 0
  /\ call = "none"
  /\ input = [kind |-> "none", chunk |-> <<>>]

\* The stream machinery delivers the next input only after done() was called:
\* a _transform that threw is never called again.
Chunk(k) ==
  /\ ~threw
  /\ sent + k <= Len(stream)
  /\ LET chunk == Slice(stream, sent, sent + k)
     IN  /\ Becomes(TransformBytes(This, chunk))
         /\ input' = [kind |-> "bytes", chunk |-> chunk]
  /\ sent' = sent + k
  /\ UNCHANGED <<errorListener, stream, eoms, call>>

EndOfMessage ==
  /\ ~threw
  /\ eoms < MaxEOM
  /\ Becomes(TransformEOM(This))
  /\ input' = [kind |-> "EOM", chunk |-> <<>>]
  /\ eoms' = eoms + 1
  /\ UNCHANGED <<errorListener, stream, sent, call>>

Next ==
  \/ \E k \in 0..MaxChunk : Chunk(k)
  \/ EndOfMessage

Spec == Init /\ [][Next]_vars

\* ------------------------------------------------ readers called directly
\* v as `width` little-endian bytes.
EncodeLE(v, width) ==
  [i \in 1..width |->
     BitAt(v, 8 * i - 7) + 2 * BitAt(v, 8 * i - 6) + 4 * BitAt(v, 8 * i - 5)
       + 8 * BitAt(v, 8 * i - 4) + 16 * BitAt(v, 8 * i - 3)
       + 32 * BitAt(v, 8 * i - 2) + 64 * BitAt(v, 8 * i - 1)
       + 128 * BitAt(v, 8 * i)]

Ones(k) == [i \in 1..k |-> 1]

\* The magnitudes encoded for the unsigned readers: 0, 1, 65, 2^24 - 1,
\* 2^32 - 1, 2^32, 2^40 - 1, 2^53 - 1, 2^53 and, past the exact range,
\* 2^54 - 1.
Values ==
  { <<>>, <<1>>, BitsOfNat(65), Ones(24), Ones(32), ShiftLeft(<<1>>, 32),
    Ones(40), Ones(Significand), ShiftLeft(<<1>>, Significand),
    Ones(Significand + 1) }

\* The 8-byte inputs of readInt64LE, least significant byte first: 0, 1, -1,
\* -4294967296, 4294967296, 2^39 + 1, 2^53 - 1, -(2^53 - 1).
Signed64 ==
  { <<0, 0, 0, 0, 0, 0, 0, 0>>,
    <<1, 0, 0, 0, 0, 0, 0, 0>>,
    <<255, 255, 255, 255, 255, 255, 255, 255>>,
    <<0, 0, 0, 0, 255, 255, 255, 255>>,
    <<0, 0, 0, 0, 1, 0, 0, 0>>,
    <<1, 0, 0, 0, 128, 0, 0, 0>>,
    <<255, 255, 255, 255, 255, 255, 31, 0>>,
    <<1, 0, 0, 0, 0, 0, 224, 255>> }

\* The 4-byte and 8-byte encodings read as floating point, least significant
\* byte first: 0, -0, 1, -1.5, the least subnormal, infinity, NaN.
Floats ==
  { <<0, 0, 0, 0>>, <<0, 0, 0, 128>>, <<0, 0, 128, 63>>, <<0, 0, 192, 191>>,
    <<1, 0, 0, 0>>, <<0, 0, 128, 127>>, <<0, 0, 192, 127>> }

Doubles ==
  { <<0, 0, 0, 0, 0, 0, 0, 0>>, <<0, 0, 0, 0, 0, 0, 0, 128>>,
    <<0, 0, 0, 0, 0, 0, 240, 63>>, <<0, 0, 0, 0, 0, 0, 248, 191>>,
    <<1, 0, 0, 0, 0, 0, 0, 0>>, <<0, 0, 0, 0, 0, 0, 240, 127>>,
    <<0, 0, 0, 0, 0, 0, 248, 127>> }

\* The bytes read as integers of 8, 16 and 32 bits.
Narrow(width) ==
  { SubSeq(s, 1, width) :
      s \in { <<0, 0, 0, 0>>, <<1, 2, 3, 4>>, <<127, 127, 127, 127>>,
              <<128, 128, 128, 128>>, <<255, 255, 255, 255>> } }

\* The bytes handed to a reader called directly.
ReadInputs(reader) ==
  CASE reader = "readInt64LE" -> Signed64
    [] reader = "readInt64BE" -> { Reverse(s) : s \in Signed64 }
    [] reader = "readUInt64BE" ->
         { Reverse(EncodeLE(v, 8)) : v \in { w \in Values : Len(w) <= 64 } }
    [] reader = "readFloatLE" -> Floats
    [] reader = "readFloatBE" -> { Reverse(s) : s \in Floats }
    [] reader = "readDoubleLE" -> Doubles
    [] reader = "readDoubleBE" -> { Reverse(s) : s \in Doubles }
    [] reader \in {"readInt8", "readUInt8", "readInt16LE", "readInt16BE",
                   "readUInt16LE", "readUInt16BE", "readInt32LE",
                   "readInt32BE", "readUInt32LE", "readUInt32BE"} ->
         Narrow(Width(reader))
    [] reader = "readBVarChar" ->
         { <<0>>, <<3, 65, 0, 66, 0, 67, 0>>, <<1, 58, 38>> }
    [] reader = "readUsVarChar" ->
         { <<0, 0>>, <<3, 0, 65, 0, 66, 0, 67, 0>>, <<1, 0, 58, 38>> }
    [] reader = "readBVarByte" -> { <<0>>, <<2, 9, 8>>, <<3, 1, 2, 3>> }
    [] reader = "readUsVarByte" -> { <<0, 0>>, <<2, 0, 9, 8>>, <<1, 0, 1>> }
    [] OTHER ->
         { EncodeLE(v, Width(reader)) :
             v \in { w \in Values : Len(w) <= 8 * Width(reader) } }

\* The same bytes, alone or followed by a ROW token.
ReadStreams(reader) ==
  ReadInputs(reader) \cup { s \o <<TYPE_ROW>> : s \in ReadInputs(reader) }

ReadInit ==
  /\ call \in FixedReaders \cup VarReaders
  /\ stream \in ReadStreams(call)
  /\ errorListener = TRUE
  /\ LET p == NewParser(InitialColMetadata, errorListener)
       IN  /\ buffer = p.buffer
           /\ position = p.position
           /\ suspended = p.suspended
           /\ next = p.next
           /\ colMetadata = p.colMetadata
           /\ pushed = p.pushed
           /\ errors = p.errors
           /\ threw = p.threw
           /\ consumed = p.consumed
           /\ emitLog = p.emitLog
           /\ trace = p.trace
           /\ dispatched = p.dispatched
           /\ results = p.results
  /\ sent = 0
  /\ eoms = 0
  /\ input = [kind |-> "none", chunk |-> <<>>]

\* parser[call](callback) on the parser as constructed.
ReadCall ==
  /\ input.kind = "none"
  /\ LET f == [NewFrame(0, colMetadata, 0) EXCEPT !.reader = call]
     IN  Becomes(AwaitData(This, Need(f), f))
  /\ input' = [kind |-> "call", chunk |-> <<>>]
  /\ UNCHANGED <<errorListener, stream, sent, eoms, call>>

ReadNext ==
  \/ ReadCall
  \/ input.kind # "none" /\ \E k \in 0..MaxChunk : Chunk(k)

ReadSpec == ReadInit /\ [][ReadNext]_vars

\* ----------------------------------------------------------------- claims
\* The bytes delivered so far, in arrival order.
Received == Slice(stream, 0, sent)

\* A fresh parser fed `bytes` as one single chunk.
OneShot(bytes) ==
  TransformBytes(NewParser(InitialColMetadata, errorListener), bytes)

\* The tokens decoded from bytes (all but the End-Of-Message tokens).
ByteTokens(tokens) == SelectSeq(tokens, LAMBDA t : t.name # "EOM")

ByteEntries(entries) == SelectSeq(entries, LAMBDA e : e.kind = "bytes")

\* The positions in the last call's trace of the events of the kinds given.
Events(kinds) == { i \in DOMAIN trace : trace[i].ev \in kinds }

\* The last step was a _transform call with a Buffer.
ByteStep == input.kind = "bytes"

\* C1: for every byte sequence without an unknown tag and every partition of
\* it into chunks, the tokens emitted chunk by chunk are the tokens emitted
\* when the same bytes arrive as one single chunk.
C1_ChunkingEquivalence ==
  LET one == OneShot(Received)
  IN  one.errors = <<>> => ByteTokens(pushed) = one.pushed

\* Two tokens were decoded with no error, the last chunk resumed a suspended
\* read inside a field and the whole stream has arrived in several chunks.
C1_Witness ==
  /\ errors = <<>>
  /\ Len(ByteTokens(pushed)) = 2
  /\ sent = Len(stream)
  /\ Len(input.chunk) < sent
  /\ trace # <<>>
  /\ trace[1].ev = "resume"
  /\ Len(buffer) > Len(input.chunk)

\* C2: tokens decoded from bytes are pushed in the order of their tag bytes
\* in the stream.
C2_EmissionOrder ==
  LET log == ByteEntries(emitLog)
  IN  \A i, j \in DOMAIN log : i < j => log[i].start < log[j].start

\* Two tokens decoded from bytes were pushed, the first one across chunks.
C2_Witness ==
  /\ Len(ByteEntries(emitLog)) = 2
  /\ Len(input.chunk) < ByteEntries(emitLog)[1].end
  /\ ByteStep


\* The step taken is a _transform call with a Buffer.
ChunkStep == input'.kind = "bytes" /\ eoms' = eoms

\* C3: once the dispatch loop has reported a tag without a decoder, that
\* parseTokens run reads no further byte as a tag and invokes no decoder.
C3_NoDispatchAfterUnknownTag ==
  \A i, j \in DOMAIN trace :
    (i < j /\ trace[i].ev = "error") => trace[j].ev \notin {"tag", "dispatch"}

\* The 'error' events emitted before the last _transform call.
ErrorsBefore == Len(errors) - Cardinality(Events({"error"}))

\* C4: an unknown tag is reported exactly once, and once it has been reported
\* a later byte chunk causes no token, no dispatch and no second report.
C4_UnknownTagFatalOnce ==
  /\ Len(errors) <= 1
  /\ (ByteStep /\ ErrorsBefore > 0) =>
       Events({"tag", "dispatch", "done", "push", "error"}) = {}

\* C5: an End-Of-Message marker pushes exactly one EOM token and changes
\* neither the window, the cursor, the suspended flag, the continuation nor
\* the column metadata; it dispatches no decoder and resumes nothing.
C5_EndOfMessageFrame ==
  [][eoms' # eoms =>
       /\ pushed' = Append(pushed, EOMToken)
       /\ trace' = <<>>
       /\ UNCHANGED <<buffer, position, suspended, next, colMetadata,
                      errors, consumed>>]_vars

\* An End-Of-Message marker arrived while the parser was suspended inside a
\* token with unread bytes in the window.
C5_Witness ==
  /\ input.kind = "EOM"
  /\ suspended
  /\ position < Len(buffer)
  /\ pushed # <<>>
  /\ pushed[Len(pushed)] = EOMToken

\* C6: a chunk that leaves a suspended read still short of its K bytes
\* re-suspends it with the same requirement: the cursor stays at the start
\* of the unconsumed tail, nothing is consumed, pushed or dispatched.
C6_ResuspendIdempotent ==
  [][(/\ ChunkStep
      /\ suspended
      /\ Len(buffer) - position + Len(input'.chunk) < next[1].need) =>
       /\ suspended'
       /\ next' = next
       /\ position' = 0
       /\ buffer' = Slice(buffer, position, Len(buffer)) \o input'.chunk
       /\ pushed' = pushed
       /\ consumed' = consumed
       /\ errors' = errors
       /\ \A i \in DOMAIN trace' : trace'[i].ev \in {"resume", "suspend"}]_vars

\* A non-empty chunk resumed a suspended read and left it suspended, with
\* bytes of the earlier chunk still unread.
C6_Witness ==
  /\ ByteStep
  /\ suspended
  /\ Len(input.chunk) > 0
  /\ Len(buffer) > Len(input.chunk)
  /\ Len(trace) = 2
  /\ trace[1].ev = "resume"
  /\ trace[2].ev = "suspend"
  /\ trace[2].arg = trace[1].arg

\* C7: after a chunk is appended the window is the unconsumed suffix followed
\* by the chunk, and the cursor counts from 0: it equals the number of bytes
\* read during the call.
C7_AppendCompacts ==
  [][ChunkStep =>
       /\ buffer' = Slice(buffer, position, Len(buffer)) \o input'.chunk
       /\ position' = Len(consumed') - Len(consumed)]_vars

\* A chunk arrived after the earlier window had been consumed whole, and the
\* window is that chunk alone.
C7_Witness ==
  /\ ByteStep
  /\ Len(input.chunk) > 0
  /\ buffer = input.chunk
  /\ Len(consumed) > position
  /\ sent > Len(input.chunk)

\* C8: a token is pushed during the call that delivers its last byte: the
\* pushes of a call end inside the chunk of that call, and no pushed token
\* ends beyond the bytes received.
C8_EmittedWithLastByte ==
  /\ \A i \in DOMAIN emitLog : emitLog[i].end <= sent
  /\ ByteStep =>
       \A i \in Events({"push"}) :
         /\ sent - Len(input.chunk) < trace[i].off
         /\ trace[i].off <= sent

\* The first chunk held tag X and part of its 4 bytes, the second the rest,
\* tag Y and Y's whole payload: X then Y were pushed in the second call.
C8_Witness ==
  /\ ByteStep
  /\ sent = Len(stream)
  /\ trace # <<>>
  /\ trace[1].ev = "resume"
  /\ trace[1].arg = 4
  /\ Len(buffer) > Len(input.chunk)
  /\ Cardinality(Events({"push"})) = 2
  /\ Len(pushed) = 2
  /\ pushed[1].name = "RETURNSTATUS"
  /\ pushed[2].name = "SSPICHALLENGE"

\* The cursor recorded along the last call never moves back.
TraceMonotone ==
  /\ \A i, j \in DOMAIN trace : i < j => trace[i].pos <= trace[j].pos
  /\ \A i \in DOMAIN trace : 0 <= trace[i].pos /\ trace[i].pos <= position

\* C9: 0 <= position <= buffer.length always, and position decreases only
\* by the reset of a chunk append.
C9_CursorInvariant ==
  /\ [](0 <= position /\ position <= Len(buffer) /\ TraceMonotone)
  /\ [][position' < position => ChunkStep]_vars

\* The cursor was reset by an append and advanced again to the window's end.
C9_Witness ==
  /\ ByteStep
  /\ position = Len(buffer)
  /\ position > 0
  /\ Len(consumed) > position

\* C10: suspend() is never called while the parser is suspended, a call
\* suspends at most once, and a suspended parser holds a continuation.
C10_SingleContinuation ==
  /\ \A i \in Events({"suspend"}) : ~trace[i].was
  /\ Cardinality(Events({"suspend"})) <= 1
  /\ suspended => next # <<>>

\* A resumed continuation suspended again, replacing the stored one.
C10_Witness ==
  /\ suspended
  /\ trace # <<>>
  /\ trace[1].ev = "resume"
  /\ Events({"suspend"}) # {}
  /\ Events({"read"}) # {}


\* The columns of the last COLMETADATA token among tokens[1..n], or the
\* constructor's colMetadata when there is none.
RECURSIVE LastMetadata(_, _)
LastMetadata(tokens, n) ==
  IF n = 0 THEN InitialColMetadata
  ELSE IF tokens[n].name = "COLMETADATA" THEN tokens[n].columns
  ELSE LastMetadata(tokens, n - 1)

\* C11: a decoder is handed the columns of the most recently completed
\* COLMETADATA token (the constructor's colMetadata if none completed), also
\* when it is suspended and resumed, and this.colMetadata already holds a
\* COLMETADATA token's columns when that token is pushed.
C11_MetadataContext ==
  /\ \A i \in DOMAIN pushed :
       pushed[i].name # "EOM" =>
         /\ emitLog[i].ctx = LastMetadata(pushed, i - 1)
         /\ emitLog[i].now = LastMetadata(pushed, i)
  /\ colMetadata = LastMetadata(pushed, Len(pushed))
  /\ suspended => next[1].frame.ctx = colMetadata

\* A ROW decoder handed the columns of an earlier COLMETADATA token was
\* suspended inside its column and resumed by the last chunk.
C11_Witness ==
  /\ Len(pushed) >= 2
  /\ pushed[Len(pushed)].name = "ROW"
  /\ pushed[Len(pushed)].columns # <<>>
  /\ emitLog[Len(pushed)].ctx # InitialColMetadata
  /\ trace # <<>>
  /\ trace[1].ev = "resume"

\* C12: while a token is only partly received no token is pushed for it and
\* no error is reported for it: the parser stays suspended with the read that
\* fell short as its last act, and the tokens pushed never outnumber the tags
\* dispatched.
C12_TruncatedToken ==
  LET n == Len(ByteEntries(emitLog))
  IN  /\ n <= dispatched
      /\ suspended =>
           /\ n <= dispatched - 1
           /\ \A i \in DOMAIN emitLog :
                emitLog[i].kind = "bytes" =>
                  emitLog[i].start # next[1].frame.start
           /\ ~threw
           /\ ByteStep =>
                /\ trace # <<>>
                /\ trace[Len(trace)].ev = "suspend"

\* A second token was dispatched and only part of its payload has arrived;
\* an End-Of-Message marker followed and the parser is still suspended.
C12_Witness ==
  /\ input.kind = "EOM"
  /\ suspended
  /\ position < Len(buffer)
  /\ dispatched = 2
  /\ Len(ByteEntries(emitLog)) = 1
  /\ errors = <<>>


\* The token decodes open just before event i of the last call: the one a
\* resumption reopened and those dispatched, less those completed.
Opened(i) ==
  (IF trace[1].ev = "resume" THEN 1 ELSE 0)
    + Cardinality({ j \in Events({"dispatch"}) : j < i })
    - Cardinality({ j \in Events({"done"}) : j < i })

\* C17: a byte is read as a tag only when no token decode is in progress: a
\* pending continuation is resumed before any tag is read, and when it
\* suspends again no tag is read in that call.
C17_NoTagInsideToken ==
  \A i \in Events({"tag"}) : Opened(i) = 0 /\ ~trace[i].was

\* The last chunk resumed a suspended decoder, which completed its token,
\* and the dispatch loop then read the next tag.
C17_Witness ==
  /\ trace # <<>>
  /\ trace[1].ev = "resume"
  /\ Events({"tag"}) # {}
  /\ Events({"push"}) # {}

\* C19: the bytes consumed so far followed by the unread tail of the window
\* are the bytes received so far, in arrival order.
C19_ByteConservation ==
  consumed \o Slice(buffer, position, Len(buffer)) = Received

\* Bytes of several chunks were consumed, an End-Of-Message marker arrived
\* and part of the window is still unread.
C19_Witness ==
  /\ eoms > 0
  /\ 0 < position
  /\ position < Len(buffer)
  /\ Len(consumed) > position
  /\ pushed # <<>>

\* C20: when _transform has returned, either the parser is suspended on a
\* read that needs more than the unread bytes, or it is not suspended and the
\* window is consumed whole.
C20_Quiescence ==
  ~threw =>
    \/ suspended /\ Len(buffer) - position < next[1].need
    \/ ~suspended /\ position = Len(buffer)

\* A chunk completed one token and left the next one suspended one byte
\* short of its read.
C20_Witness ==
  /\ ByteStep
  /\ suspended
  /\ Events({"push"}) # {}
  /\ Len(buffer) - position = next[1].need - 1
  /\ position < Len(buffer)

\* The 8 bytes the direct call decodes, least significant first.
Bytes64 ==
  IF call = "readInt64BE"
  THEN Reverse(Slice(stream, 0, 8))
  ELSE Slice(stream, 0, 8)

\* The two's-complement value of 8 bytes, least significant first.
TwosComplement(bytes) ==
  LET u == Trim(BitsOfBytesLE(bytes))
  IN  IF bytes[8] >= 128
      THEN Number(TRUE, SubBits(ShiftLeft(<<1>>, 64), u))
      ELSE Number(FALSE, u)

\* C13: readInt64LE and readInt64BE decode every 8-byte input whose value has
\* a magnitude below 2^53 to its exact two's-complement value (low word 1,
\* high word 0 decodes to 1).
C13_Int64TwosComplement ==
  (call \in {"readInt64LE", "readInt64BE"} /\ results # <<>>
     /\ Len(TwosComplement(Bytes64).mag) <= Significand)
    => results[1].num = TwosComplement(Bytes64)

\* C14: readInt64LE applied to 00 00 00 00 FF FF FF FF yields -4294967296 and
\* advances the cursor by exactly 8, however the bytes arrive.
C14_Int64LEExample ==
  (call = "readInt64LE" /\ results # <<>>
     /\ Slice(stream, 0, 8) = <<0, 0, 0, 0, 255, 255, 255, 255>>)
    => /\ results[1].num = Number(TRUE, ShiftLeft(<<1>>, 32))
       /\ results[1].start = 0
       /\ results[1].end = 8
       /\ Len(results) = 1

C14_Witness ==
  /\ call = "readInt64LE"
  /\ stream = <<0, 0, 0, 0, 255, 255, 255, 255, TYPE_ROW>>
  /\ results # <<>>
  /\ results[1].num.neg
  /\ Len(input.chunk) < 8
  /\ Len(pushed) = 1

\* The readers of the unsigned little-endian round trip.
UnsignedReaders ==
  {"readUInt24LE", "readUInt40LE", "readUNumeric64LE", "readUInt64LE",
   "readUNumeric96LE", "readUNumeric128LE"}

\* v is at most 2^53.
Exact(v) == Len(v) <= Significand \/ v = ShiftLeft(<<1>>, Significand)

\* C15: every v that fits the width and is at most 2^53, encoded as
\* little-endian bytes of 24, 40, 64, 96 or 128 bits, is decoded to exactly v
\* by the reader of that width, which advances the cursor by the width in
\* bytes.
C15_UnsignedRoundTrip ==
  \A v \in Values :
    (/\ call \in UnsignedReaders
     /\ Len(v) <= 8 * Width(call)
     /\ Exact(v)
     /\ Slice(stream, 0, Width(call)) = EncodeLE(v, Width(call))
     /\ results # <<>>)
      => /\ results[1].num = Number(FALSE, v)
         /\ results[1].end - results[1].start = Width(call)
         /\ Len(results) = 1

C15_Witness ==
  /\ call = "readUNumeric128LE"
  /\ Slice(stream, 0, 16) = EncodeLE(ShiftLeft(<<1>>, Significand), 16)
  /\ results # <<>>
  /\ results[1].num.mag = ShiftLeft(<<1>>, Significand)
  /\ Len(input.chunk) < 16

VarChars == {"readBVarChar", "readUsVarChar"}

\* The length a variable-length reader's prefix announces in the stream.
Announced == IF PrefixWidth(call) = 1 THEN stream[1] ELSE stream[1] + 256 * stream[2]

\* The bytes of the payload that follows the prefix in the stream.
Payload ==
  Slice(stream, PrefixWidth(call),
        PrefixWidth(call) + (IF call \in VarChars THEN 2 ELSE 1) * Announced)

\* The reader called with all of `bytes` in the window: it does not suspend.
Unsuspended(reader, bytes) ==
  LET f == [NewFrame(0, InitialColMetadata, 0) EXCEPT !.reader = reader]
      p == [NewParser(InitialColMetadata, errorListener) EXCEPT
              !.buffer = bytes]
  IN  AwaitData(p, Need(f), f)

\* C16: a length-prefixed read consumes the prefix and the payload and nothing
\* else (2 * L bytes for the character readers, L for the byte readers): it
\* yields as soon as these bytes have arrived, once, the value an unsuspended
\* read yields; every resumption takes up the read that suspended, the prefix
\* before any byte was consumed or the payload after the prefix.
C16_LengthPrefixed ==
  (call \in VarReaders /\ input.kind # "none")
    => /\ \A i \in Events({"resume"}) :
            \/ trace[i].off = 0 /\ trace[i].arg = PrefixWidth(call)
            \/ trace[i].off = PrefixWidth(call) /\ trace[i].arg = Len(Payload)
       /\ results # <<>> <=> sent >= PrefixWidth(call) + Len(Payload)
       /\ results # <<>>
            => /\ Len(results) = 1
               /\ results[1].start = 0
               /\ results[1].end = PrefixWidth(call) + Len(Payload)
               /\ results[1].data =
                    IF call \in VarChars THEN Ucs2(Payload) ELSE Payload
               /\ results = Unsuspended(call, stream).results

C16_Witness ==
  /\ call = "readBVarChar"
  /\ stream = <<3, 65, 0, 66, 0, 67, 0, TYPE_ROW>>
  /\ results # <<>>
  /\ results[1].data = <<65, 66, 67>>
  /\ \E i \in Events({"resume"}) : trace[i].off = 1 /\ trace[i].arg = 6
  /\ Len(pushed) = 1

\* C18: a read of N bytes takes its bytes only where position + N <=
\* buffer.length (the window does not change during a call); where fewer than
\* N unread bytes exist, and only there, it suspends instead: the call ends
\* with the cursor where the read found it, the unread bytes still in the
\* window, and no error raised.
C18_ReadsWithinWindow ==
  /\ \A i \in Events({"read"}) :
       /\ trace[i].pos - trace[i].arg >= 0
       /\ trace[i].pos <= Len(buffer)
  /\ \A i \in Events({"suspend"}) :
       /\ trace[i].pos + trace[i].arg > Len(buffer)
       /\ i = Len(trace)
       /\ suspended
       /\ position = trace[i].pos
       /\ Slice(buffer, position, Len(buffer)) = Slice(stream, trace[i].off, sent)
       /\ errors = <<>>
       /\ ~threw
  /\ (Events({"suspend"}) = {} /\ input.kind # "none") => ~suspended

C18_Witness ==
  /\ suspended
  /\ position > 0
  /\ position < Len(buffer)
  /\ Events({"read"}) # {}
  /\ trace[Len(trace)].ev = "suspend"
  /\ trace[Len(trace)].arg = 6

====
